---- MODULE Spec2Model ----
(***************************************************************************)
(* Model of the settings store, the settings resolver and the association  *)
(* gate of the CLI (config/settings.go) and of the command contract that   *)
(* calls the gate (commands/rollback/contract.go).                         *)
(*                                                                         *)
(* Strings are TLA+ strings; the empty Go string is "".  A line typed at   *)
(* the prompt is a sequence of one-character strings, so that what         *)
(* fmt.Scanln makes of a line is computed and not assumed.                 *)
(***************************************************************************)
EXTENDS Integers, Sequences, FiniteSets, TLC

VARIABLES
    files,      \* the two store files of the home directory: name -> [exists, data]
    pc,         \* per invocation: where the process is
    envName,    \* per invocation: the alias given on the command line ("" = none)
    settings,   \* per invocation: the in-memory models.Settings
    ops,        \* per invocation: the file-system calls GetSettings has made, in order
    fs0,        \* per invocation: the files as they were when the operation in
                \* progress (GetSettings, then the operation called after it) started
    call,       \* per invocation: the operation called after GetSettings, with its arguments
    entry,      \* per invocation: settings as they were when that operation was called
    err,        \* per invocation: the error the operation returned
    candidate,  \* per invocation: the key of the entry the gate's loop picked
    line,       \* per invocation: the last line read from standard input
    answer,     \* per invocation: defaultEnvPrompt's local variable answer
    shown,      \* per invocation: how many times the question was printed
    writes,     \* per invocation: how many times the store file was written
    fatal,      \* per invocation: why the process exited, "" while it has not
    lastDel     \* the last DeleteBreadcrumb that saved: the alias it was given and
                \* the Environments it was given, [valid, alias, envs]

vars == <<files, pc, envName, settings, ops, fs0, call, entry, err, candidate,
          line, answer, shown, writes, fatal, lastDel>>

(***************************************************************************)
(* Bounds                                                                  *)
(***************************************************************************)
\* most entries in the Environments mapping of an initial store file
MaxEntries == 2
\* most times the question is printed during one call of the gate
MaxShown == 3

(***************************************************************************)
(* Constants of the program                                                *)
(***************************************************************************)
OldSettingsFile == ".catalyze"
SettingsFile == ".datica"
FileNames == {OldSettingsFile, SettingsFile}

\* the value CheckRequiredAssociation returns when the association is missing
ErrEnvRequired == "ErrEnvRequired"
\* errors.New("Exiting") of defaultEnvPrompt
ErrExiting == "Exiting"
\* the fmt.Errorf of DeleteBreadcrumb
ErrNotAssociated == "An environment named has not been associated"
\* a nil error
Nil == "nil"
\* the compiled-in version stamped on the settings
VERSION == "VERSION"

\* the invocations; the sequential specification runs the first one only
Procs == {1, 2}

(***************************************************************************)
(* Data: models.AssociatedEnv, models.Settings and the store file          *)
(***************************************************************************)
AliasKeys == {"", "a", "b"}
EnvNames == {"", "a", "b"}

ZeroEntry ==
    [Name |-> "", EnvironmentID |-> "", ServiceID |-> "", Pod |-> "", OrgID |-> ""]

\* entries a store file may hold: complete ones, ones with one id only, a blank one;
\* the display name of an entry is independent of the key it is stored under
Entries ==
    { [Name |-> "a", EnvironmentID |-> "e1", ServiceID |-> "s1", Pod |-> "p1", OrgID |-> "o1"],
      [Name |-> "b", EnvironmentID |-> "e2", ServiceID |-> "s2", Pod |-> "p2", OrgID |-> "o2"],
      [Name |-> "a", EnvironmentID |-> "e3", ServiceID |-> "", Pod |-> "p3", OrgID |-> "o3"],
      [Name |-> "b", EnvironmentID |-> "", ServiceID |-> "s4", Pod |-> "p4", OrgID |-> "o4"],
      ZeroEntry }

EmptyEnvs == [k \in {} |-> ZeroEntry]

\* make(map[string]models.AssociatedEnv) and the maps a store file can hold
EnvMaps ==
    UNION { [D -> Entries] : D \in { X \in SUBSET AliasKeys : Cardinality(X) <= MaxEntries } }

\* var settings models.Settings: every field at its zero value, Environments nil
\* (nil is told apart from the empty map by envNil)
ZeroSettings ==
    [ EnvironmentID |-> "", ServiceID |-> "", Pod |-> "", EnvironmentName |-> "",
      OrgID |-> "", SessionToken |-> "", Environments |-> EmptyEnvs, envNil |-> TRUE,
      Default |-> "", Version |-> "" ]

\* the contents of a file: valid is FALSE for an empty or malformed file;
\* envNull is TRUE when the JSON object has no (or a null) environments field
NoData ==
    [valid |-> FALSE, token |-> "", envNull |-> TRUE, environments |-> EmptyEnvs, default |-> ""]

\* the persisted fields of models.Settings: token, environments, default
StoreData ==
    { [valid |-> TRUE, token |-> "t1", envNull |-> FALSE, environments |-> m, default |-> d] :
        m \in EnvMaps, d \in AliasKeys }
    \cup
    { [valid |-> TRUE, token |-> "t1", envNull |-> TRUE, environments |-> EmptyEnvs, default |-> d] :
        d \in AliasKeys }
    \cup { NoData }

\* what a file left behind by the previous release of the CLI holds
LegacyData ==
    [ valid |-> TRUE, token |-> "t0", envNull |-> FALSE,
      environments |-> [k \in {"a"} |-> CHOOSE e \in Entries : e.EnvironmentID = "e1"],
      default |-> "a" ]

Missing == [exists |-> FALSE, data |-> NoData]
File(d) == [exists |-> TRUE, data |-> d]

(***************************************************************************)
(* Pure parts of config/settings.go                                        *)
(***************************************************************************)
\* json.NewDecoder(file).Decode(&settings) into the zero value: an empty or
\* malformed file leaves the zero value, a JSON object fills the persisted fields
Decode(d) ==
    IF d.valid
    THEN [ZeroSettings EXCEPT !.SessionToken = d.token,
                              !.Environments = IF d.envNull THEN EmptyEnvs ELSE d.environments,
                              !.envNil = d.envNull,
                              !.Default = d.default]
    ELSE ZeroSettings

\* if settings.Environments == nil { settings.Environments = make(map...) }
InitEnvironments(s) ==
    IF s.envNil THEN [s EXCEPT !.Environments = EmptyEnvs, !.envNil = FALSE] ELSE s

\* json.Marshal(&settings): the persisted fields only
Marshal(s) ==
    [ valid |-> TRUE, token |-> s.SessionToken, envNull |-> s.envNil,
      environments |-> s.Environments, default |-> s.Default ]

\* settings.EnvironmentID == "" || settings.ServiceID == ""
IncompleteBothEmpty(s) == s.EnvironmentID = "" /\ s.ServiceID = ""
Incomplete(s) == s.EnvironmentID = "" \/ s.ServiceID = ""

\* setGivenEnv: the entry stored under the key name, if any, is copied to the top level
setGivenEnvKeepsPod(name, s) ==
    IF name \in DOMAIN s.Environments
    THEN LET e == s.Environments[name]
         IN  [s EXCEPT !.EnvironmentID = e.EnvironmentID,
                       !.ServiceID = e.ServiceID,
                       !.EnvironmentName = name,
                       !.OrgID = e.OrgID]
    ELSE s
setGivenEnv(name, s) ==
    IF name \in DOMAIN s.Environments
    THEN LET e == s.Environments[name]
         IN  [s EXCEPT !.EnvironmentID = e.EnvironmentID,
                       !.ServiceID = e.ServiceID,
                       !.Pod = e.Pod,
                       !.EnvironmentName = name,
                       !.OrgID = e.OrgID]
    ELSE s

\* GetSettings, "try and set the given env first, if it exists"
ResolveGiven(name, s) == IF name # "" THEN setGivenEnv(name, s) ELSE s

\* GetSettings, the logrus.Fatalf after the given env was tried
GivenEnvFatalEnvOnly(name, s) == name # "" /\ s.EnvironmentID = ""
GivenEnvFatal(name, s) == name # "" /\ Incomplete(s)

\* GetSettings, "if not given, try default"
ResolveDefault(s) == IF Incomplete(s) THEN setGivenEnv(s.Default, s) ELSE s

\* GetSettings, the host, version and VERSION assignments (hosts and credentials
\* come from the command line and take no part in the association)
Stamp(s) == [s EXCEPT !.Version = VERSION]

\* delete(settings.Environments, alias)
DeleteAll(envs, alias) == EmptyEnvs
DeleteKey(envs, alias) == [k \in (DOMAIN envs) \ {alias} |-> envs[k]]

\* os.Rename(old, new): new takes old's contents, replacing what it held; old is gone
RenameCopies(fs, old, new) == [fs EXCEPT ![new] = fs[old]]
RenameFile(fs, old, new) == [fs EXCEPT ![new] = fs[old], ![old] = Missing]

\* os.Create(name): the file exists and is empty
CreateFile(fs, name) == [fs EXCEPT ![name] = File(NoData)]

\* ioutil.WriteFile(name, b, 0644): the file holds b and nothing of what it held
WriteFileMerges(fs, name, d) ==
    [fs EXCEPT ![name] =
        File([d EXCEPT !.environments =
                [k \in (DOMAIN d.environments) \cap (DOMAIN fs[name].data.environments) |->
                    d.environments[k]]])]
WriteFile(fs, name, d) == [fs EXCEPT ![name] = File(d)]

\* fmt.Scanln(&answer) on one line: leading blanks are skipped and the first
\* blank-separated word is stored; a line without a word leaves answer as it was
RECURSIVE SkipSpace(_)
SkipSpace(l) == IF l # <<>> /\ Head(l) = " " THEN SkipSpace(Tail(l)) ELSE l
RECURSIVE Token(_)
Token(l) == IF l = <<>> \/ Head(l) = " " THEN <<>> ELSE <<Head(l)>> \o Token(Tail(l))
Scanln(l, old) == LET t == Token(SkipSpace(l)) IN IF t = <<>> THEN old ELSE t

Yes == <<"y">>
No == <<"n">>
\* the lines a user types
Lines ==
    { Yes, No, <<"Y">>, <<"N">>, <<>>, <<"y", "e", "s">>, <<" ", "y">>, <<"n", " ", "o">> }

\* the first branch of CheckRequiredAssociation
NeedsAssociation(required, s) == required /\ Incomplete(s)

\* CheckRequiredAssociation up to the first read of standard input: it returns
\* nil, returns ErrEnvRequired, or enters defaultEnvPrompt for one entry
GateIgnoresRequired(required, prompt, s) ==
    IF ~Incomplete(s) THEN "nil"
    ELSE IF prompt /\ DOMAIN s.Environments # {} THEN "prompt"
    ELSE "required"
Gate(required, prompt, s) ==
    IF ~NeedsAssociation(required, s) THEN "nil"
    ELSE IF prompt /\ DOMAIN s.Environments # {} THEN "prompt"
    ELSE "required"

\* defaultEnvPrompt: the loop goes on until answer is "y" or "n"
ValidAnswer(a) == a = Yes \/ a = No
\* defaultEnvPrompt: the value returned once the loop is left
PromptResult(a) == IF a = No THEN ErrExiting ELSE Nil

(***************************************************************************)
(* The state before an invocation                                          *)
(***************************************************************************)
NoFiles == [f \in FileNames |-> Missing]
NoCall == [op |-> "none", required |-> FALSE, prompt |-> FALSE, alias |-> ""]
NoDel == [valid |-> FALSE, alias |-> "", envs |-> EmptyEnvs]

Init ==
    /\ files \in { [f \in FileNames |-> IF f = OldSettingsFile THEN o ELSE c] :
                     o \in {Missing, File(LegacyData)},
                     c \in {Missing} \cup { File(d) : d \in StoreData } }
    /\ pc = [p \in Procs |-> "idle"]
    /\ envName = [p \in Procs |-> ""]
    /\ settings = [p \in Procs |-> ZeroSettings]
    /\ ops = [p \in Procs |-> <<>>]
    /\ fs0 = [p \in Procs |-> NoFiles]
    /\ call = [p \in Procs |-> NoCall]
    /\ entry = [p \in Procs |-> ZeroSettings]
    /\ err = [p \in Procs |-> "none"]
    /\ candidate = [p \in Procs |-> ""]
    /\ line = [p \in Procs |-> <<>>]
    /\ answer = [p \in Procs |-> <<>>]
    /\ shown = [p \in Procs |-> 0]
    /\ writes = [p \in Procs |-> 0]
    /\ fatal = [p \in Procs |-> ""]
    /\ lastDel = NoDel

gateVars == <<call, entry, err, candidate, line, answer, shown>>

(***************************************************************************)
(* GetSettings, one action per file-system call                            *)
(***************************************************************************)
\* the process starts with an alias on its command line (or none)
Start(p, name) ==
    /\ pc[p] = "idle"
    /\ pc' = [pc EXCEPT ![p] = "stat"]
    /\ envName' = [envName EXCEPT ![p] = name]
    /\ fs0' = [fs0 EXCEPT ![p] = files]
    /\ UNCHANGED <<files, settings, ops, gateVars, writes, fatal, lastDel>>

\* os.Stat(OldSettingsFile)
StatOld(p) ==
    /\ pc[p] = "stat"
    /\ ops' = [ops EXCEPT ![p] = Append(@, "stat")]
    /\ pc' = [pc EXCEPT ![p] = IF files[OldSettingsFile].exists THEN "rename" ELSE "open"]
    /\ UNCHANGED <<files, envName, settings, fs0, gateVars, writes, fatal, lastDel>>

\* os.Rename succeeds
RenameOk(p) ==
    /\ pc[p] = "rename"
    /\ files[OldSettingsFile].exists
    /\ files' = RenameFile(files, OldSettingsFile, SettingsFile)
    /\ ops' = [ops EXCEPT ![p] = Append(@, "rename")]
    /\ pc' = [pc EXCEPT ![p] = "open"]
    /\ UNCHANGED <<envName, settings, fs0, gateVars, writes, fatal, lastDel>>

\* os.Rename fails: the message is logged and os.Exit(1)
RenameFails(p) ==
    /\ pc[p] = "rename"
    /\ ops' = [ops EXCEPT ![p] = Append(@, "rename")]
    /\ pc' = [pc EXCEPT ![p] = "exited"]
    /\ fatal' = [fatal EXCEPT ![p] = "migrate"]
    /\ UNCHANGED <<files, envName, settings, fs0, gateVars, writes, lastDel>>

\* os.Open(SettingsFile): it opens the file, or reports that there is none
OpenFile(p) ==
    /\ pc[p] = "open"
    /\ ops' = [ops EXCEPT ![p] = Append(@, "open")]
    /\ pc' = [pc EXCEPT ![p] = IF files[SettingsFile].exists THEN "decode" ELSE "create"]
    /\ UNCHANGED <<files, envName, settings, fs0, gateVars, writes, fatal, lastDel>>

\* os.Open fails for another reason: os.Exit(1)
OpenFails(p) ==
    /\ pc[p] = "open"
    /\ ops' = [ops EXCEPT ![p] = Append(@, "open")]
    /\ pc' = [pc EXCEPT ![p] = "exited"]
    /\ fatal' = [fatal EXCEPT ![p] = "io"]
    /\ UNCHANGED <<files, envName, settings, fs0, gateVars, writes, lastDel>>

\* os.Create(SettingsFile) after os.IsNotExist
CreateOk(p) ==
    /\ pc[p] = "create"
    /\ files' = CreateFile(files, SettingsFile)
    /\ ops' = [ops EXCEPT ![p] = Append(@, "create")]
    /\ pc' = [pc EXCEPT ![p] = "decode"]
    /\ UNCHANGED <<envName, settings, fs0, gateVars, writes, fatal, lastDel>>

\* os.Create fails: os.Exit(1)
CreateFails(p) ==
    /\ pc[p] = "create"
    /\ ops' = [ops EXCEPT ![p] = Append(@, "create")]
    /\ pc' = [pc EXCEPT ![p] = "exited"]
    /\ fatal' = [fatal EXCEPT ![p] = "io"]
    /\ UNCHANGED <<files, envName, settings, fs0, gateVars, writes, lastDel>>

\* the rest of GetSettings: decode, resolve the given alias or exit, fall back to
\* the default alias, stamp the version, return
Resolve(p) ==
    /\ pc[p] = "decode"
    /\ LET s0 == InitEnvironments(Decode(files[SettingsFile].data))
           s1 == ResolveGiven(envName[p], s0)
       IN  IF GivenEnvFatal(envName[p], s1)
           THEN /\ settings' = [settings EXCEPT ![p] = s1]
                /\ pc' = [pc EXCEPT ![p] = "exited"]
                /\ fatal' = [fatal EXCEPT ![p] = "No environment named"]
           ELSE /\ settings' = [settings EXCEPT ![p] = Stamp(ResolveDefault(s1))]
                /\ pc' = [pc EXCEPT ![p] = "loaded"]
                /\ UNCHANGED fatal
    /\ UNCHANGED <<files, envName, ops, fs0, gateVars, writes, lastDel>>

(***************************************************************************)
(* CheckRequiredAssociation and defaultEnvPrompt                           *)
(***************************************************************************)
\* CheckRequiredAssociation(required, prompt, settings) up to its return or, when
\* it prompts, up to the first read of standard input; the range over the map
\* yields any one of its entries first
CallCheck(p, required, prompt) ==
    /\ pc[p] = "loaded"
    /\ call' = [call EXCEPT ![p] = [op |-> "check", required |-> required,
                                    prompt |-> prompt, alias |-> ""]]
    /\ entry' = [entry EXCEPT ![p] = settings[p]]
    /\ LET g == Gate(required, prompt, settings[p])
       IN  IF g = "prompt"
           THEN /\ \E k \in DOMAIN settings[p].Environments :
                      candidate' = [candidate EXCEPT ![p] = k]
                /\ shown' = [shown EXCEPT ![p] = 1]
                /\ pc' = [pc EXCEPT ![p] = "prompt"]
                /\ UNCHANGED err
           ELSE /\ err' = [err EXCEPT ![p] = IF g = "nil" THEN Nil ELSE ErrEnvRequired]
                /\ pc' = [pc EXCEPT ![p] = "returned"]
                /\ UNCHANGED <<candidate, shown>>
    /\ fs0' = [fs0 EXCEPT ![p] = files]
    /\ UNCHANGED <<files, envName, settings, ops, line, answer, writes, fatal, lastDel>>

\* one round of defaultEnvPrompt's loop: a line is read; a wrong answer prints
\* the question again; "n" returns the error; "y" returns nil and
\* CheckRequiredAssociation calls setGivenEnv(e.Name, settings)
ReadLine(p, l) ==
    /\ pc[p] = "prompt"
    /\ LET a == Scanln(l, answer[p])
           e == settings[p].Environments[candidate[p]]
       IN  /\ line' = [line EXCEPT ![p] = l]
           /\ answer' = [answer EXCEPT ![p] = a]
           /\ IF ~ValidAnswer(a)
              THEN /\ shown[p] < MaxShown
                   /\ shown' = [shown EXCEPT ![p] = @ + 1]
                   /\ UNCHANGED <<pc, err, settings>>
              ELSE /\ err' = [err EXCEPT ![p] = PromptResult(a)]
                   /\ settings' = [settings EXCEPT ![p] =
                                     IF PromptResult(a) = Nil THEN setGivenEnv(e.Name, @) ELSE @]
                   /\ pc' = [pc EXCEPT ![p] = "returned"]
                   /\ UNCHANGED shown
    /\ UNCHANGED <<files, envName, ops, fs0, call, entry, candidate, writes, fatal, lastDel>>

(***************************************************************************)
(* The command contract of rollback and metrics                            *)
(***************************************************************************)
\* the gate was called as CheckRequiredAssociation(true, true, settings)
ByContract(p) == call[p].op = "check" /\ call[p].required /\ call[p].prompt

\* the gate returned nil: CmdRollback runs with the settings
RunCommand(p) ==
    /\ pc[p] = "returned"
    /\ ByContract(p)
    /\ err[p] = Nil
    /\ pc' = [pc EXCEPT ![p] = "cmd"]
    /\ UNCHANGED <<files, envName, settings, ops, fs0, gateVars, writes, fatal, lastDel>>

\* the gate returned an error: logrus.Fatal
GateFatal(p) ==
    /\ pc[p] = "returned"
    /\ ByContract(p)
    /\ err[p] # Nil
    /\ pc' = [pc EXCEPT ![p] = "exited"]
    /\ fatal' = [fatal EXCEPT ![p] = err[p]]
    /\ UNCHANGED <<files, envName, settings, ops, fs0, gateVars, writes, lastDel>>

(***************************************************************************)
(* DeleteBreadcrumb and SaveSettings                                       *)
(***************************************************************************)
\* DeleteBreadcrumb(alias, settings) returns: the alias is unknown, or the entry
\* is deleted and SaveSettings has written the file
CallDelete(p, alias) ==
    /\ pc[p] = "loaded"
    /\ call' = [call EXCEPT ![p] = [op |-> "delete", required |-> FALSE,
                                    prompt |-> FALSE, alias |-> alias]]
    /\ entry' = [entry EXCEPT ![p] = settings[p]]
    /\ IF alias \notin DOMAIN settings[p].Environments
       THEN /\ err' = [err EXCEPT ![p] = ErrNotAssociated]
            /\ UNCHANGED <<files, settings, writes, lastDel>>
       ELSE LET s == [settings[p] EXCEPT !.Environments = DeleteKey(@, alias)]
            IN  /\ settings' = [settings EXCEPT ![p] = s]
                /\ files' = WriteFile(files, SettingsFile, Marshal(s))
                /\ writes' = [writes EXCEPT ![p] = @ + 1]
                /\ lastDel' = [valid |-> TRUE, alias |-> alias,
                               envs |-> settings[p].Environments]
                /\ err' = [err EXCEPT ![p] = Nil]
    /\ fs0' = [fs0 EXCEPT ![p] = files]
    /\ pc' = [pc EXCEPT ![p] = "returned"]
    /\ UNCHANGED <<envName, ops, candidate, line, answer, shown, fatal>>

\* DeleteBreadcrumb where ioutil.WriteFile fails in SaveSettings: os.Exit(1); the
\* file is as it was (it could not be opened) or cut short (the write failed)
DeleteSaveFails(p, alias) ==
    /\ pc[p] = "loaded"
    /\ alias \in DOMAIN settings[p].Environments
    /\ call' = [call EXCEPT ![p] = [op |-> "delete", required |-> FALSE,
                                    prompt |-> FALSE, alias |-> alias]]
    /\ entry' = [entry EXCEPT ![p] = settings[p]]
    /\ settings' = [settings EXCEPT ![p].Environments = DeleteKey(@, alias)]
    /\ \/ UNCHANGED files
       \/ files' = WriteFile(files, SettingsFile, NoData)
    /\ writes' = [writes EXCEPT ![p] = @ + 1]
    /\ lastDel' = NoDel
    /\ pc' = [pc EXCEPT ![p] = "exited"]
    /\ fatal' = [fatal EXCEPT ![p] = "io"]
    /\ fs0' = [fs0 EXCEPT ![p] = files]
    /\ UNCHANGED <<envName, ops, err, candidate, line, answer, shown>>

(***************************************************************************)
(* The process ends; the next invocation starts from the files alone       *)
(***************************************************************************)
Finish(p) ==
    /\ \/ pc[p] \in {"cmd", "exited"}
       \/ pc[p] = "returned" /\ ~ByContract(p)
    /\ pc' = [pc EXCEPT ![p] = "idle"]
    /\ envName' = [envName EXCEPT ![p] = ""]
    /\ settings' = [settings EXCEPT ![p] = ZeroSettings]
    /\ ops' = [ops EXCEPT ![p] = <<>>]
    /\ fs0' = [fs0 EXCEPT ![p] = NoFiles]
    /\ call' = [call EXCEPT ![p] = NoCall]
    /\ entry' = [entry EXCEPT ![p] = ZeroSettings]
    /\ err' = [err EXCEPT ![p] = "none"]
    /\ candidate' = [candidate EXCEPT ![p] = ""]
    /\ line' = [line EXCEPT ![p] = <<>>]
    /\ answer' = [answer EXCEPT ![p] = <<>>]
    /\ shown' = [shown EXCEPT ![p] = 0]
    /\ writes' = [writes EXCEPT ![p] = 0]
    /\ fatal' = [fatal EXCEPT ![p] = ""]
    /\ UNCHANGED <<files, lastDel>>

Step(p) ==
    \/ \E name \in EnvNames : Start(p, name)
    \/ StatOld(p)
    \/ RenameOk(p)
    \/ RenameFails(p)
    \/ OpenFile(p)
    \/ OpenFails(p)
    \/ CreateOk(p)
    \/ CreateFails(p)
    \/ Resolve(p)
    \/ \E required \in BOOLEAN, prompt \in BOOLEAN : CallCheck(p, required, prompt)
    \/ \E l \in Lines : ReadLine(p, l)
    \/ RunCommand(p)
    \/ GateFatal(p)
    \/ \E alias \in AliasKeys : CallDelete(p, alias)
    \/ \E alias \in AliasKeys : DeleteSaveFails(p, alias)
    \/ Finish(p)

\* one invocation at a time
Next == Step(1)

Spec == Init /\ [][Next]_vars

(***************************************************************************)
(* Properties                                                              *)
(***************************************************************************)
\* the association of s is complete: both ids are set
HasBoth(s) == s.EnvironmentID # "" /\ s.ServiceID # ""
\* the top-level fields of s are those of the entry e
CarriesEntry(s, e) ==
    /\ s.EnvironmentID = e.EnvironmentID
    /\ s.ServiceID = e.ServiceID
    /\ s.Pod = e.Pod
    /\ s.OrgID = e.OrgID
\* CheckRequiredAssociation has returned to its caller
GateReturned(p) == call[p].op = "check" /\ pc[p] \in {"returned", "cmd"}
\* the members of a sequence
Range(q) == { q[i] : i \in DOMAIN q }

\* C1: the gate fails closed: when CheckRequiredAssociation(true, prompt, settings)
\* returns no error, EnvironmentID and ServiceID are both non-empty, so the
\* command behind the gate never runs without a complete association.
C1_GateFailsClosed ==
    \A p \in Procs :
        (GateReturned(p) /\ call[p].required /\ err[p] = Nil) => HasBoth(settings[p])

\* C2: CheckRequiredAssociation(true, false, settings) returns ErrEnvRequired if
\* and only if EnvironmentID or ServiceID is empty, returns no error otherwise,
\* and shows no prompt in either case.
C2_NoPromptGate ==
    \A p \in Procs :
        (GateReturned(p) /\ call[p].required /\ ~call[p].prompt) =>
            /\ err[p] = ErrEnvRequired <=> ~HasBoth(entry[p])
            /\ err[p] # ErrEnvRequired => err[p] = Nil
            /\ shown[p] = 0

\* C2 happens: the gate refused, without prompting, settings that carry an
\* environment id and no service id
C2_Witness ==
    \E p \in Procs :
        /\ GateReturned(p) /\ call[p].required /\ ~call[p].prompt
        /\ err[p] = ErrEnvRequired
        /\ entry[p].EnvironmentID # "" /\ entry[p].ServiceID = ""
        /\ entry[p].Environments # EmptyEnvs

\* C3: CheckRequiredAssociation is a no-op when required is false, or required is
\* true and the association is complete: whatever promptAllowed is, it returns no
\* error, shows no prompt and leaves the settings, the Environments mapping and
\* the files as they were.
C3_GateNoOp ==
    \A p \in Procs :
        (GateReturned(p) /\ (~call[p].required \/ HasBoth(entry[p]))) =>
            /\ err[p] = Nil
            /\ shown[p] = 0
            /\ settings[p] = entry[p]
            /\ files = fs0[p]

\* C3 happens: prompting was allowed, nothing was required, the settings carry no
\* association and the mapping has an entry that could have been offered
C3_Witness ==
    \E p \in Procs :
        /\ GateReturned(p) /\ ~call[p].required /\ call[p].prompt
        /\ entry[p].EnvironmentID = "" /\ entry[p].ServiceID = ""
        /\ entry[p].Environments # EmptyEnvs

\* C4: in the Settings GetSettings returns, and after every call of
\* CheckRequiredAssociation or DeleteBreadcrumb, EnvironmentID and ServiceID are
\* both empty or both non-empty, whatever the store file holds.
C4_BothOrNeither ==
    \A p \in Procs :
        pc[p] \in {"loaded", "returned", "cmd"} =>
            (settings[p].EnvironmentID = "" <=> settings[p].ServiceID = "")

C6_DefaultFallback_Original ==
    \A p \in Procs :
        LET s == settings[p] IN
        (pc[p] = "loaded" /\ envName[p] = "") =>
            /\ s.Default \in DOMAIN s.Environments => CarriesEntry(s, s.Environments[s.Default])
            /\ (s.Default = "" \/ s.Default \notin DOMAIN s.Environments) =>
                   (s.EnvironmentID = "" /\ s.ServiceID = "")

\* C6, amended: with no alias given, Default is looked up as a key of
\* Environments, the empty string like any other: if an entry is stored under
\* Default the Settings returned carry that entry's ids, pod and org; if none is,
\* GetSettings returns with the association left empty.
C6_DefaultFallback ==
    \A p \in Procs :
        LET s == settings[p] IN
        (pc[p] = "loaded" /\ envName[p] = "") =>
            /\ s.Default \in DOMAIN s.Environments => CarriesEntry(s, s.Environments[s.Default])
            /\ s.Default \notin DOMAIN s.Environments =>
                   (s.EnvironmentID = "" /\ s.ServiceID = "" /\ s.Pod = "" /\ s.OrgID = "")

\* C6 happens: no alias was given, Default is the empty string, an entry is
\* stored under the empty string, and its ids were loaded
C6_Witness ==
    \E p \in Procs :
        /\ pc[p] = "loaded" /\ envName[p] = ""
        /\ settings[p].Default = ""
        /\ "" \in DOMAIN settings[p].Environments
        /\ settings[p].EnvironmentID = "e2" /\ settings[p].Pod = "p2"

\* GetSettings started with a legacy file and no current file
LegacyOnly(p) == fs0[p][OldSettingsFile].exists /\ ~fs0[p][SettingsFile].exists

\* C7: if the legacy file exists and the current file does not when GetSettings
\* starts, then when it returns the legacy file is gone and the current file
\* holds exactly what the legacy file held; the rename comes before the current
\* file is opened or created; and if the rename fails the process exits without
\* opening or creating the current file.
C7_LegacyMigration ==
    \A p \in Procs :
        (call[p].op = "none" /\ LegacyOnly(p)) =>
            /\ pc[p] = "loaded" =>
                   /\ ~files[OldSettingsFile].exists
                   /\ files[SettingsFile] = fs0[p][OldSettingsFile]
            /\ \A j \in DOMAIN ops[p] :
                   ops[p][j] \in {"open", "create"} =>
                       \E i \in 1..(j - 1) : ops[p][i] = "rename"
            /\ fatal[p] = "migrate" =>
                   /\ Range(ops[p]) \cap {"open", "create"} = {}
                   /\ ~files[SettingsFile].exists

\* C7 happens: GetSettings returned after it renamed the only file there was
C7_Witness ==
    \E p \in Procs :
        /\ pc[p] = "loaded" /\ LegacyOnly(p)
        /\ "rename" \in Range(ops[p])
        /\ files[SettingsFile] = File(LegacyData)

\* C8: the migration loses no data: whatever files there were when GetSettings
\* started, both of them included, once it has migrated the legacy file is gone
\* and what the current file held before is still in the current file.
C8_MigrationKeepsData ==
    \A p \in Procs :
        (pc[p] = "loaded" /\ "rename" \in Range(ops[p])) =>
            /\ ~files[OldSettingsFile].exists
            /\ fs0[p][SettingsFile].exists =>
                   /\ files[SettingsFile].data.token = fs0[p][SettingsFile].data.token
                   /\ files[SettingsFile].data.environments =
                          fs0[p][SettingsFile].data.environments
                   /\ files[SettingsFile].data.default = fs0[p][SettingsFile].data.default

\* the Environments mapping m is the mapping before without the key alias
Without(m, before, alias) ==
    /\ DOMAIN m = (DOMAIN before) \ {alias}
    /\ \A k \in DOMAIN m : m[k] = before[k]

\* C9: DeleteBreadcrumb on an alias that is no key of Environments returns the
\* not-associated error, leaves the mapping as it was and does not write the
\* file; on a key it returns no error, removes that key and no other, and saves
\* at once, so that the next GetSettings yields the mapping without the alias and
\* with every other alias.
C9_DeleteBreadcrumb ==
    /\ \A p \in Procs :
        (call[p].op = "delete" /\ pc[p] = "returned") =>
            IF call[p].alias \notin DOMAIN entry[p].Environments
            THEN /\ err[p] = ErrNotAssociated
                 /\ settings[p] = entry[p]
                 /\ writes[p] = 0
                 /\ files = fs0[p]
            ELSE /\ err[p] = Nil
                 /\ Without(settings[p].Environments, entry[p].Environments, call[p].alias)
                 /\ writes[p] = 1
                 /\ files[SettingsFile].exists
                 /\ files[SettingsFile].data.valid
                 /\ ~files[SettingsFile].data.envNull
                 /\ files[SettingsFile].data.environments = settings[p].Environments
    /\ \A p \in Procs :
        (lastDel.valid /\ pc[p] = "loaded" /\ call[p].op = "none") =>
            Without(settings[p].Environments, lastDel.envs, lastDel.alias)

\* C9 happens: a GetSettings that follows a DeleteBreadcrumb of one of two
\* aliases returned the other alias alone
C9_Witness ==
    \E p \in Procs :
        /\ lastDel.valid /\ pc[p] = "loaded" /\ call[p].op = "none"
        /\ Cardinality(DOMAIN lastDel.envs) = 2
        /\ Cardinality(DOMAIN settings[p].Environments) = 1

\* the gate was entered on its prompt branch
PromptBranch(p) ==
    /\ call[p].op = "check" /\ call[p].required /\ call[p].prompt
    /\ (entry[p].EnvironmentID = "" \/ entry[p].ServiceID = "")

\* C10: on the prompt branch, an empty mapping gives ErrEnvRequired and no
\* prompt; otherwise one entry is offered, the call does not return while the
\* answer read is neither "y" nor "n", "n" returns the cancellation error with
\* the settings unchanged, and "y" resolves the offered entry and fills the
\* settings from it.
C10_PromptBranch ==
    \A p \in Procs :
        PromptBranch(p) =>
            /\ (pc[p] = "returned" /\ entry[p].Environments = EmptyEnvs) =>
                   (shown[p] = 0 /\ err[p] = ErrEnvRequired)
            /\ pc[p] = "prompt" =>
                   (candidate[p] \in DOMAIN entry[p].Environments /\ shown[p] >= 1)
            /\ (pc[p] = "returned" /\ entry[p].Environments # EmptyEnvs) =>
                   /\ answer[p] \in {Yes, No}
                   /\ answer[p] = No =>
                          /\ err[p] = ErrExiting
                          /\ err[p] # ErrEnvRequired
                          /\ settings[p] = entry[p]
                   /\ answer[p] = Yes =>
                          /\ err[p] = Nil
                          /\ CarriesEntry(settings[p], entry[p].Environments[candidate[p]])

(***************************************************************************)
(* Two invocations at once: nothing in GetSettings, SaveSettings or        *)
(* DeleteBreadcrumb takes a lock, so their file-system calls interleave    *)
(***************************************************************************)
\* a store with two complete associations
TwoAliases ==
    [ valid |-> TRUE, token |-> "t1", envNull |-> FALSE,
      environments |-> [k \in {"a", "b"} |->
                          CHOOSE e \in Entries : e.Name = k /\ e.EnvironmentID # "" /\ e.ServiceID # ""],
      default |-> "" ]

InitConc ==
    /\ Init
    /\ files[SettingsFile] \in {Missing, File(TwoAliases)}

NextConc == \E p \in Procs : Step(p)

SpecConc == InitConc /\ [][NextConc]_vars

\* C11: the store file is written without locking and never merged: every save
\* leaves the file equal to the saving invocation's whole in-memory Settings,
\* whatever another invocation wrote since this one loaded, so the last writer
\* wins and the other invocation's change is lost.
C11_LastWriterWins ==
    [][ \A p \in Procs :
          (writes'[p] = writes[p] + 1 /\ pc'[p] = "returned") =>
              /\ files'[SettingsFile] = File(Marshal(settings'[p]))
              /\ \A q \in Procs \ {p} :
                     (call[q].op = "delete" /\ pc[q] = "returned" /\ err[q] = Nil
                         /\ call[q].alias \in DOMAIN settings'[p].Environments) =>
                         call[q].alias \in DOMAIN files'[SettingsFile].data.environments
      ]_vars

\* C11 happens: both invocations loaded the two aliases, each removed another
\* one and saved; the file is the second writer's Settings and holds again the
\* alias the first writer removed
C11_Witness ==
    /\ \A p \in Procs : call[p].op = "delete" /\ pc[p] = "returned" /\ err[p] = Nil
    /\ call[1].alias = "a" /\ call[2].alias = "b"
    /\ entry[1].Environments = TwoAliases.environments
    /\ entry[2].Environments = TwoAliases.environments
    /\ files[SettingsFile] = File(Marshal(settings[2]))
    /\ DOMAIN files[SettingsFile].data.environments = {"a"}

====
